---------------------------- MODULE Spec2Model ----------------------------
(***************************************************************************)
(* A model of spotify_to_tidal's backup import                             *)
(* (src/src/spotify_to_tidal/backup.py): the reconciliation of the         *)
(* playlists, favourite tracks, albums and artists of a snapshot with a    *)
(* Tidal account.  The Tidal account is the environment: every call to it  *)
(* is one step, is recorded in `calls`, and may fail.                      *)
(***************************************************************************)
EXTENDS Naturals, Sequences, FiniteSets

\* ------------------------------------------------------------------ bounds
MaxTracks == 3      \* longest track list of a snapshot playlist / favourites
MaxOld == 3         \* longest track list of an existing Tidal playlist
MaxItems == 2       \* longest album / artist list of a snapshot
MaxResults == 2     \* longest candidate list one Tidal search returns
MaxVersion == 3     \* highest 'version' a snapshot file carries

\* ------------------------------------------------------------------ values
None == "None"                          \* Python's None
Absent == "Absent"                      \* a key the snapshot entry does not have
SpotifyTrackIds == {"s1", "s2"}         \* 'id' of a snapshot track
NoId == "noid"                          \* a snapshot track whose 'id' is None
NoName == "noname"                      \* a snapshot entry that has no 'name' key
KeyError == "KeyError: 'name'"          \* what entry['name'] raises for it
TidalTrackIds == {"t1", "t2"}
PlaylistNames == {"mix", "road"}
Descriptions == {"", "for the road"}
SpotifyItems == {"a1", "a2"}            \* a snapshot album or artist (its name)
TidalItemIds == {"x1", "x2"}            \* id of a Tidal album or artist
BACKUP_VERSION == 2                     \* the format version this reader knows

SeqsUpTo(S, n) == UNION {[1..k -> S] : k \in 0..n}
Range(s) == {s[i] : i \in 1..Len(s)}
\* Python's s[:n]
Take(s, n) == SubSeq(s, 1, IF n < Len(s) THEN n ELSE Len(s))
\* Python's s[n:]
Drop(s, n) == SubSeq(s, n + 1, Len(s))

VARIABLES
    pc,                   \* the statement the run is at
    args,                 \* main: which of --export, --import, --uri were given
    sessions,             \* main: the sessions opened, "spotify" and / or "tidal"
    spotify_calls,        \* history: the calls issued to Spotify, in order
    spotify_object,       \* the Spotify dict a _simplify_ function is given
    simplified,           \* the dict the _simplify_ function returned
    not_found_report,     \* the not-found report files: the lines of each
    catalog,              \* environment: the Tidal track each Spotify track matches
    tidalPlaylists,       \* Tidal: the account's playlists, a handle is an index
    favTracks,            \* Tidal: ids of the favourite tracks
    favAlbums,            \* Tidal: ids of the favourite albums
    favArtists,           \* Tidal: ids of the favourite artists
    tidal0,               \* history: the Tidal account when the run started
    calls,                \* history: the calls issued to Tidal, in order
    track_match_cache,    \* cache.track_match_cache: Spotify id -> Tidal id
    exported_data,        \* export_spotify_data: the dict backup_data it writes
    backup_file,          \* the file at backup_path: the members of its JSON object
    backup_data,          \* import_from_backup: the dict load_backup returned
    error,                \* the message of the ValueError load_backup raised, or None
    options,              \* import_from_backup: sync_favorites, sync_albums, sync_artists
    tidal_playlists,      \* import_from_backup: playlist name -> handle, 0 is None
    pl_i,                 \* import_from_backup: position of the playlist loop
    playlist_data,        \* sync_playlist_from_backup's argument
    tidal_playlist,       \* sync_playlist_from_backup's argument, 0 is None
    old_tidal_tracks,     \* sync_playlist_from_backup: ids of the playlist's tracks
    new_tidal_track_ids,  \* sync_playlist_from_backup: the resolved ids
    favorites_data,       \* sync_favorites_from_backup's argument
    new_ids,              \* sync_favorites_from_backup: the ids to add
    items_data,           \* albums_data / artists_data
    known,                \* existing_favorite_ids / tidal_favorite_albums / _artists
    item_i,               \* position of the running for loop
    search_results,       \* the candidates the last search returned
    candidate,            \* the matched search result about to be added
    not_found,            \* local list not_found
    added_count           \* local counter added_count

envVars ==
    <<catalog, tidal0, options, exported_data, args, spotify_object, not_found_report>>
mainVars == <<sessions, spotify_calls, simplified>>
loadVars == <<backup_file, backup_data, error>>
tidalVars == <<tidalPlaylists, favTracks, favAlbums, favArtists>>
importVars == <<tidal_playlists, pl_i>>
playlistVars == <<playlist_data, tidal_playlist, old_tidal_tracks, new_tidal_track_ids>>
favVars == <<favorites_data, new_ids>>
itemVars == <<items_data, search_results, candidate, not_found, added_count>>
loopVars == <<known, item_i>>
vars == <<pc, calls, track_match_cache, envVars, mainVars, loadVars, tidalVars, importVars,
          playlistVars, favVars, itemVars, loopVars>>

\* ------------------------------------------------------------ the call log
\* One call to the Tidal session.  `name` is the playlist or item the call is
\* about, `ids` the ids it carries, `ok` whether it returned (FALSE: it raised).
Call(op, name, description, ids, ok) ==
    [op |-> op, name |-> name, description |-> description, ids |-> ids, ok |-> ok]

MutationOps == {"create_playlist", "clear", "append", "add_track", "add_album", "add_artist"}
CallsOf(ops) == SelectSeq(calls, LAMBDA c : c.op \in ops)

\* ------------------------------------------------------- the track matching
EmptyCache == [s \in SpotifyTrackIds |-> None]

\* sync.populate_track_match_cache: a snapshot track that is not cached yet and
\* whose Tidal equivalent is among the tracks already in the collection is cached.
populate_track_match_cache(cache, spotify_tracks, tidal_track_ids) ==
    [s \in SpotifyTrackIds |->
        IF cache[s] # None THEN cache[s]
        ELSE IF s \in Range(spotify_tracks) /\ catalog[s] \in tidal_track_ids
             THEN catalog[s]
             ELSE None]

\* The tracks sync.search_new_tracks_on_tidal searches: those with an id that
\* the cache does not resolve.
tracks_to_search(cache, spotify_tracks) ==
    SelectSeq(spotify_tracks, LAMBDA s : s # NoId /\ cache[s] = None)

\* sync.search_new_tracks_on_tidal: every searched track that has an equivalent
\* in the Tidal catalog is cached.
search_new_tracks_on_tidal(cache, spotify_tracks) ==
    [s \in SpotifyTrackIds |->
        IF cache[s] # None THEN cache[s]
        ELSE IF s \in Range(spotify_tracks) THEN catalog[s] ELSE None]

\* sync.get_tracks_for_new_tidal_playlist: the cached Tidal id of every track,
\* in snapshot order; a track without id or without match is skipped.
get_tracks_for_new_tidal_playlist(cache, spotify_tracks) ==
    LET r == SelectSeq(spotify_tracks, LAMBDA s : s # NoId /\ cache[s] # None)
    IN  [i \in 1..Len(r) |-> cache[r[i]]]

\* ------------------------------------------------ sync_playlist_from_backup
\* playlist_data.get('description', '')
description_of(p) == IF p.description = Absent THEN "" ELSE p.description

\* The three-way comparison of backup.py lines 258-264.
PlanRewriteAlways(old_ids, new_ids_) ==
    IF new_ids_ = old_ids THEN "none" ELSE "rewrite"
PlanAppendAlways(old_ids, new_ids_) ==
    IF new_ids_ = old_ids THEN "none" ELSE "append"
PlanNoEqualCase(old_ids, new_ids_) ==
    IF Take(new_ids_, Len(old_ids)) = old_ids THEN "append" ELSE "rewrite"
PlanCompareLengths(old_ids, new_ids_) ==
    IF Len(new_ids_) = Len(old_ids) THEN "none"
    ELSE IF Len(new_ids_) > Len(old_ids) THEN "append"
    ELSE "rewrite"
playlist_update_plan(old_ids, new_ids_) ==
    IF new_ids_ = old_ids THEN "none"
    ELSE IF Take(new_ids_, Len(old_ids)) = old_ids THEN "append"
    ELSE "rewrite"

\* tidalapi_patch.add_multiple_tracks_to_playlist on the Tidal side
tidal_append(pls, h, ids) == [pls EXCEPT ![h].tracks = @ \o ids]
\* tidalapi_patch.clear_tidal_playlist on the Tidal side
tidal_clear(pls, h) == [pls EXCEPT ![h].tracks = <<>>]

\* Lines 235-249: skip an empty playlist; otherwise read the existing playlist's
\* tracks or create the playlist.
sync_playlist_enter ==
    /\ pc = "pl_begin"
    /\ IF Len(playlist_data.tracks) = 0
       THEN /\ pc' = "pl_return"
            /\ UNCHANGED <<tidalPlaylists, calls, tidal_playlist, old_tidal_tracks>>
       ELSE IF tidal_playlist # 0
       THEN \E ok \in BOOLEAN :
            /\ calls' = Append(calls, Call("playlist_tracks", playlist_data.name, "", <<>>, ok))
            /\ pc' = IF ok THEN "pl_match" ELSE "aborted"
            /\ old_tidal_tracks' = IF ok THEN tidalPlaylists[tidal_playlist].tracks
                                         ELSE old_tidal_tracks
            /\ UNCHANGED <<tidalPlaylists, tidal_playlist>>
       ELSE \E ok \in BOOLEAN :
            /\ calls' = Append(calls, Call("create_playlist", playlist_data.name,
                                           description_of(playlist_data), <<>>, ok))
            /\ pc' = IF ok THEN "pl_match" ELSE "aborted"
            /\ tidalPlaylists' =
                 IF ok THEN Append(tidalPlaylists,
                                   [name |-> playlist_data.name,
                                    description |-> description_of(playlist_data),
                                    tracks |-> <<>>])
                       ELSE tidalPlaylists
            /\ tidal_playlist' = IF ok THEN Len(tidalPlaylists) + 1 ELSE tidal_playlist
            /\ old_tidal_tracks' = <<>>
    /\ UNCHANGED <<track_match_cache, favTracks, favAlbums, favArtists, playlist_data,
                   new_tidal_track_ids>>
    /\ UNCHANGED <<envVars, mainVars, loadVars, importVars, favVars, itemVars, loopVars>>

\* Lines 251-254: seed the cache from the existing tracks, search the rest,
\* build the new id list.
sync_playlist_match ==
    /\ pc = "pl_match"
    /\ LET seeded == populate_track_match_cache(track_match_cache, playlist_data.tracks,
                                                Range(old_tidal_tracks))
           wanted == tracks_to_search(seeded, playlist_data.tracks)
           found == search_new_tracks_on_tidal(seeded, playlist_data.tracks)
       IN  IF wanted = <<>>
           THEN /\ track_match_cache' = seeded
                /\ new_tidal_track_ids' =
                     get_tracks_for_new_tidal_playlist(seeded, playlist_data.tracks)
                /\ pc' = "pl_update"
                /\ UNCHANGED calls
           ELSE \E ok \in BOOLEAN :
                /\ calls' = Append(calls, Call("search_tracks", playlist_data.name, "", wanted, ok))
                /\ track_match_cache' = IF ok THEN found ELSE seeded
                /\ new_tidal_track_ids' =
                     IF ok THEN get_tracks_for_new_tidal_playlist(found, playlist_data.tracks)
                           ELSE new_tidal_track_ids
                /\ pc' = IF ok THEN "pl_update" ELSE "aborted"
    /\ UNCHANGED <<playlist_data, tidal_playlist, old_tidal_tracks>>
    /\ UNCHANGED <<envVars, mainVars, loadVars, tidalVars, importVars, favVars, itemVars, loopVars>>

\* Lines 256-263: nothing to write, append the missing suffix, or clear.
sync_playlist_update ==
    /\ pc = "pl_update"
    /\ LET plan == playlist_update_plan(old_tidal_tracks, new_tidal_track_ids)
           tail == Drop(new_tidal_track_ids, Len(old_tidal_tracks))
       IN  CASE plan = "none" ->
                  /\ pc' = "pl_return"
                  /\ UNCHANGED <<calls, tidalPlaylists>>
             [] plan = "append" ->
                  \E ok \in BOOLEAN :
                  /\ calls' = Append(calls, Call("append", playlist_data.name, "", tail, ok))
                  /\ tidalPlaylists' = IF ok THEN tidal_append(tidalPlaylists, tidal_playlist, tail)
                                             ELSE tidalPlaylists
                  /\ pc' = IF ok THEN "pl_return" ELSE "aborted"
             [] plan = "rewrite" ->
                  \E ok \in BOOLEAN :
                  /\ calls' = Append(calls, Call("clear", playlist_data.name, "", <<>>, ok))
                  /\ tidalPlaylists' = IF ok THEN tidal_clear(tidalPlaylists, tidal_playlist)
                                             ELSE tidalPlaylists
                  /\ pc' = IF ok THEN "pl_rewrite" ELSE "aborted"
    /\ UNCHANGED <<track_match_cache, favTracks, favAlbums, favArtists>>
    /\ UNCHANGED <<envVars, mainVars, loadVars, importVars, playlistVars, favVars, itemVars, loopVars>>

\* Line 264: after the clear, write the new list in full.
sync_playlist_rewrite ==
    /\ pc = "pl_rewrite"
    /\ \E ok \in BOOLEAN :
       /\ calls' = Append(calls, Call("append", playlist_data.name, "", new_tidal_track_ids, ok))
       /\ tidalPlaylists' = IF ok THEN tidal_append(tidalPlaylists, tidal_playlist,
                                                    new_tidal_track_ids)
                                  ELSE tidalPlaylists
       /\ pc' = IF ok THEN "pl_return" ELSE "aborted"
    /\ UNCHANGED <<track_match_cache, favTracks, favAlbums, favArtists>>
    /\ UNCHANGED <<envVars, mainVars, loadVars, importVars, playlistVars, favVars, itemVars, loopVars>>

\* ----------------------------------------------- sync_favorites_from_backup
\* Lines 296-303: the cached id of every snapshot track that has an id, a match
\* and is not among the existing favourites, in snapshot order.
FavoriteIdsUntilSkipped(cache, spotify_tracks, existing_favorite_ids) ==
    LET skipped == {i \in 1..Len(spotify_tracks) :
                      spotify_tracks[i] = NoId \/ cache[spotify_tracks[i]] = None}
        n == IF skipped = {} THEN Len(spotify_tracks)
             ELSE (CHOOSE i \in skipped : \A j \in skipped : i <= j) - 1
        r == SelectSeq(SubSeq(spotify_tracks, 1, n),
                       LAMBDA s : cache[s] \notin existing_favorite_ids)
    IN  [i \in 1..Len(r) |-> cache[r[i]]]
favorite_new_ids(cache, spotify_tracks, existing_favorite_ids) ==
    LET r == SelectSeq(spotify_tracks,
                       LAMBDA s : /\ s # NoId
                                  /\ cache[s] # None
                                  /\ cache[s] \notin existing_favorite_ids)
    IN  [i \in 1..Len(r) |-> cache[r[i]]]

\* Lines 280-289: nothing to do for an empty list; otherwise read the existing
\* favourite tracks (no handler: a failure ends the run).
sync_favorites_enter ==
    /\ pc = "fav_begin"
    /\ IF favorites_data = <<>>
       THEN /\ pc' = "fav_return"
            /\ UNCHANGED <<calls, known>>
       ELSE \E ok \in BOOLEAN :
            /\ calls' = Append(calls, Call("favorite_tracks", "", "", <<>>, ok))
            /\ known' = IF ok THEN favTracks ELSE known
            /\ pc' = IF ok THEN "fav_match" ELSE "aborted"
    /\ UNCHANGED <<track_match_cache, item_i>>
    /\ UNCHANGED <<envVars, mainVars, loadVars, tidalVars, importVars, playlistVars, favVars, itemVars>>

\* Lines 291-305: seed the cache from the existing favourites, search the rest,
\* list the ids to add.
sync_favorites_match ==
    /\ pc = "fav_match"
    /\ LET seeded == populate_track_match_cache(track_match_cache, favorites_data, known)
           wanted == tracks_to_search(seeded, favorites_data)
           found == search_new_tracks_on_tidal(seeded, favorites_data)
           after(cache) ==
               /\ track_match_cache' = cache
               /\ new_ids' = favorite_new_ids(cache, favorites_data, known)
               /\ pc' = IF new_ids' # <<>> THEN "fav_add" ELSE "fav_return"
               /\ item_i' = 1
       IN  IF wanted = <<>>
           THEN after(seeded) /\ UNCHANGED calls
           ELSE \/ /\ calls' = Append(calls, Call("search_tracks", "Favorites", "", wanted, TRUE))
                   /\ after(found)
                \/ /\ calls' = Append(calls, Call("search_tracks", "Favorites", "", wanted, FALSE))
                   /\ track_match_cache' = seeded
                   /\ pc' = "aborted"
                   /\ UNCHANGED <<new_ids, item_i>>
    /\ UNCHANGED <<favorites_data, known>>
    /\ UNCHANGED <<envVars, mainVars, loadVars, tidalVars, importVars, playlistVars, itemVars>>

\* Line 307, 356, 419: what favorites.add_track / add_album / add_artist does
\* to the favourites of the account.
FavoritesReplacedByAdd(favourites, id) == {id}
favorites_after_add(favourites, id) == favourites \cup {id}

\* Lines 306-307: one add_track per entry of new_ids (no handler: a failure
\* ends the run).
sync_favorites_add ==
    /\ pc = "fav_add"
    /\ \E ok \in BOOLEAN :
       /\ calls' = Append(calls, Call("add_track", "", "", <<new_ids[item_i]>>, ok))
       /\ favTracks' = IF ok THEN favorites_after_add(favTracks, new_ids[item_i])
                             ELSE favTracks
       /\ item_i' = IF ok THEN item_i + 1 ELSE item_i
       /\ pc' = IF ~ok THEN "aborted"
                ELSE IF item_i < Len(new_ids) THEN "fav_add" ELSE "fav_return"
    /\ UNCHANGED <<track_match_cache, known, tidalPlaylists, favAlbums, favArtists>>
    /\ UNCHANGED <<envVars, mainVars, loadVars, importVars, playlistVars, favVars, itemVars>>

\* ------------------------ sync_albums_from_backup, sync_artists_from_backup
\* The two functions differ in the names of the calls only; k is "albums" or
\* "artists" and is the prefix of the pass's labels.
At(k, label) == k \o "_" \o label
AddOp(k) == IF k = "albums" THEN "add_album" ELSE "add_artist"
Favourites(k) == IF k = "albums" THEN favAlbums ELSE favArtists

\* One search result: a Tidal album / artist and whether it passes the
\* equivalence test (check_album_similarity, or the normalized names agree).
Candidates == [id : TidalItemIds, similar : BOOLEAN]
SearchResults == SeqsUpTo(Candidates, MaxResults)

\* Lines 352-362: the first result, in the returned order, that passes the
\* test; 0 when none does.
LastMatch(results) ==
    LET hits == {i \in 1..Len(results) : results[i].similar}
    IN  IF hits = {} THEN 0 ELSE CHOOSE i \in hits : \A j \in hits : j <= i
first_match(results) ==
    LET hits == {i \in 1..Len(results) : results[i].similar}
    IN  IF hits = {} THEN 0 ELSE CHOOSE i \in hits : \A j \in hits : i <= j

\* The loop header: the next item, or the end of the pass.
next_item(k) ==
    /\ item_i' = item_i + 1
    /\ pc' = IF item_i < Len(items_data) THEN At(k, "search") ELSE At(k, "return")

\* Lines 323-340 / 386-403: nothing to do for an empty list; otherwise read
\* the existing favourites, an empty set if that fails.
sync_items_enter(k) ==
    /\ pc = At(k, "begin")
    /\ IF items_data = <<>>
       THEN /\ pc' = At(k, "return")
            /\ UNCHANGED <<calls, known, item_i, not_found, added_count>>
       ELSE \E ok \in BOOLEAN :
            /\ calls' = Append(calls, Call("favorite_" \o k, "", "", <<>>, ok))
            /\ known' = IF ok THEN Favourites(k) ELSE {}
            /\ added_count' = 0
            /\ not_found' = <<>>
            /\ item_i' = 1
            /\ pc' = At(k, "search")
    /\ UNCHANGED <<track_match_cache, items_data, search_results, candidate>>
    /\ UNCHANGED <<envVars, mainVars, loadVars, tidalVars, importVars, playlistVars, favVars>>

\* Lines 364-368 / 427-431: an item without match is noted in not_found.
not_found_append(names, item) == Append(names, item)

\* What a raising search leads to: the handler of lines 366-368 / 429-431
\* notes the item as not found, and the loop goes on.
SearchFailedAborts(k) == pc' = "aborted" /\ UNCHANGED <<item_i, not_found>>
search_failed(k) ==
    /\ not_found' = not_found_append(not_found, items_data[item_i])
    /\ next_item(k)

\* Lines 342-350 / 405-412: search the item.  The call is logged with the id
\* of the result the loop below will settle on.  The name is read before the
\* try (lines 343, 406): an entry without 'name' ends the run with a KeyError.
sync_items_search(k) ==
    /\ pc = At(k, "search")
    /\ LET item == items_data[item_i]
       IN  IF item = NoName
           THEN /\ error' = KeyError
                /\ pc' = "aborted"
                /\ UNCHANGED <<calls, search_results, item_i, not_found>>
           ELSE /\ UNCHANGED error
                /\ \/ /\ calls' = Append(calls, Call("search_" \o k, item, "", <<>>, FALSE))
                      /\ search_failed(k)
                      /\ UNCHANGED search_results
                   \/ \E results \in SearchResults :
                      LET m == first_match(results)
                      IN  /\ calls' = Append(calls, Call("search_" \o k, item, "",
                                                         IF m = 0 THEN <<>>
                                                         ELSE <<results[m].id>>,
                                                         TRUE))
                          /\ search_results' = results
                          /\ pc' = At(k, "match")
                          /\ UNCHANGED <<item_i, not_found>>
    /\ UNCHANGED <<track_match_cache, known, items_data, candidate, added_count>>
    /\ UNCHANGED <<backup_file, backup_data>>
    /\ UNCHANGED <<envVars, mainVars, tidalVars, importVars, playlistVars, favVars>>

\* Lines 352-354, 361-365 / 414-417, 424-428: the loop over the results stops
\* at the first that passes the test; it is added unless it is a known
\* favourite; an item none of whose results passes is noted as not found.
\* The results are not read again after the loop.
sync_items_match(k) ==
    /\ pc = At(k, "match")
    /\ LET m == first_match(search_results)
       IN  IF m = 0
           THEN /\ not_found' = not_found_append(not_found, items_data[item_i])
                /\ next_item(k)
                /\ UNCHANGED candidate
           ELSE IF search_results[m].id \notin known
           THEN /\ candidate' = search_results[m].id
                /\ pc' = At(k, "add")
                /\ UNCHANGED <<item_i, not_found>>
           ELSE /\ next_item(k)
                /\ UNCHANGED <<candidate, not_found>>
    /\ search_results' = <<>>
    /\ UNCHANGED <<calls, track_match_cache, known, items_data, added_count>>
    /\ UNCHANGED <<envVars, mainVars, loadVars, tidalVars, importVars, playlistVars, favVars>>

\* Lines 357 / 420: a successful add is remembered for the rest of the pass.
KnownNotUpdated(known_ids, id) == known_ids
known_after_add(known_ids, id) == known_ids \cup {id}

\* What a raising add_album / add_artist leads to: the handler of lines
\* 359-360 / 422-423 prints, and the loop goes on.
AddFailedAborts(k) == pc' = "aborted" /\ UNCHANGED item_i
add_failed(k) == next_item(k)

\* Lines 354-362 / 417-425: add the matched album / artist to the favourites.
sync_items_add(k) ==
    /\ pc = At(k, "add")
    /\ \/ /\ calls' = Append(calls, Call(AddOp(k), items_data[item_i], "", <<candidate>>, TRUE))
          /\ favAlbums' = IF k = "albums" THEN favorites_after_add(favAlbums, candidate)
                                           ELSE favAlbums
          /\ favArtists' = IF k = "artists" THEN favorites_after_add(favArtists, candidate)
                                             ELSE favArtists
          /\ known' = known_after_add(known, candidate)
          /\ added_count' = added_count + 1
          /\ next_item(k)
       \/ /\ calls' = Append(calls, Call(AddOp(k), items_data[item_i], "", <<candidate>>, FALSE))
          /\ add_failed(k)
          /\ UNCHANGED <<favAlbums, favArtists, known, added_count>>
    /\ candidate' = None
    /\ UNCHANGED <<track_match_cache, tidalPlaylists, favTracks, items_data, not_found,
                   search_results>>
    /\ UNCHANGED <<envVars, mainVars, loadVars, importVars, playlistVars, favVars>>

sync_albums_enter == sync_items_enter("albums")
sync_albums_search == sync_items_search("albums")
sync_albums_match == sync_items_match("albums")
sync_albums_add == sync_items_add("albums")
sync_artists_enter == sync_items_enter("artists")
sync_artists_search == sync_items_search("artists")
sync_artists_match == sync_items_match("artists")
sync_artists_add == sync_items_add("artists")

\* ------------------------------------------------------ the snapshot file
\* The keys of the dict export_spotify_data builds (lines 162-170), in its
\* order; 'exported_at' and 'spotify_user' are only printed and are left out.
BackupKeys == <<"version", "playlists", "favorites", "albums", "artists">>

\* A writer that, like the dict literal of the export, has every key.
JsonDumpEveryKey(data) ==
    [i \in 1..Len(BackupKeys) |->
        <<BackupKeys[i],
          IF BackupKeys[i] \in DOMAIN data THEN data[BackupKeys[i]]
          ELSE IF BackupKeys[i] = "version" THEN BACKUP_VERSION
          ELSE <<>> >>]
\* json.dump of a dict (line 178): the members of the JSON object, one
\* <<key, value>> per key the dict has, in the dict's order.  Numbers, strings
\* and lists are written as themselves.
json_dump(data) ==
    LET ks == SelectSeq(BackupKeys, LAMBDA k : k \in DOMAIN data)
    IN  [i \in 1..Len(ks) |-> <<ks[i], data[ks[i]]>>]

\* json.load of an object (line 204): a dict with the keys of the members; of
\* two members with one key the later wins.
json_load(text) ==
    [k \in {text[i][1] : i \in 1..Len(text)} |->
        LET last == CHOOSE i \in 1..Len(text) :
                        /\ text[i][1] = k
                        /\ \A j \in 1..Len(text) : text[j][1] = k => j <= i
        IN  text[last][2]]

\* The messages of the three ValueErrors of load_backup (lines 209, 211, 215).
MissingVersion == "Invalid backup file: missing version field"
UnsupportedVersion == "Backup version is newer than supported version"
MissingPlaylists == "Invalid backup file: missing playlists field"

NoData == [k \in {} |-> None]
\* The outcome of a call: the exception raised, or the value returned.
Raise(message) == [raised |-> message, value |-> NoData]
Return(value) == [raised |-> None, value |-> value]

\* Variants of load_backup that differ from the code in one decision.
LoadPlaylistsFirst(text) ==
    LET data == json_load(text)
    IN  IF "playlists" \notin DOMAIN data THEN Raise(MissingPlaylists)
        ELSE IF "version" \notin DOMAIN data THEN Raise(MissingVersion)
        ELSE IF data.version > BACKUP_VERSION THEN Raise(UnsupportedVersion)
        ELSE Return(data)
LoadPlaylistsBeforeNewer(text) ==
    LET data == json_load(text)
    IN  IF "version" \notin DOMAIN data THEN Raise(MissingVersion)
        ELSE IF "playlists" \notin DOMAIN data THEN Raise(MissingPlaylists)
        ELSE IF data.version > BACKUP_VERSION THEN Raise(UnsupportedVersion)
        ELSE Return(data)
LoadWithoutPlaylistsCheck(text) ==
    LET data == json_load(text)
    IN  IF "version" \notin DOMAIN data THEN Raise(MissingVersion)
        ELSE IF data.version > BACKUP_VERSION THEN Raise(UnsupportedVersion)
        ELSE Return(data)
LoadOnlyCurrentVersion(text) ==
    LET data == json_load(text)
    IN  IF "version" \notin DOMAIN data THEN Raise(MissingVersion)
        ELSE IF data.version # BACKUP_VERSION THEN Raise(UnsupportedVersion)
        ELSE IF "playlists" \notin DOMAIN data THEN Raise(MissingPlaylists)
        ELSE Return(data)
LoadAcceptsNewer(text) ==
    LET data == json_load(text)
    IN  IF "version" \notin DOMAIN data THEN Raise(MissingVersion)
        ELSE IF "playlists" \notin DOMAIN data THEN Raise(MissingPlaylists)
        ELSE Return(data)
LoadFillsDefaults(text) ==
    LET data == json_load(text)
    IN  IF "version" \notin DOMAIN data THEN Raise(MissingVersion)
        ELSE IF data.version > BACKUP_VERSION THEN Raise(UnsupportedVersion)
        ELSE IF "playlists" \notin DOMAIN data THEN Raise(MissingPlaylists)
        ELSE Return([k \in DOMAIN data \cup {"albums", "artists"} |->
                        IF k \in DOMAIN data THEN data[k] ELSE <<>>])

\* Lines 203-217.  data.get('version') is None when the key is missing (a
\* null version is not among the files drawn here).
load_backup(text) ==
    LET data == json_load(text)
    IN  IF "version" \notin DOMAIN data THEN Raise(MissingVersion)
        ELSE IF data.version > BACKUP_VERSION THEN Raise(UnsupportedVersion)
        ELSE IF "playlists" \notin DOMAIN data THEN Raise(MissingPlaylists)
        ELSE Return(data)

\* Lines 176-178 of export_spotify_data: the dict is written to the file.
write_backup ==
    /\ pc = "write"
    /\ backup_file' = json_dump(exported_data)
    /\ pc' = "load"
    /\ UNCHANGED <<calls, track_match_cache, backup_data, error>>
    /\ UNCHANGED <<envVars, mainVars, tidalVars, importVars, playlistVars, favVars, itemVars, loopVars>>

\* One call of load_backup on the file.
read_backup ==
    /\ pc = "load"
    /\ LET r == load_backup(backup_file)
       IN  /\ error' = r.raised
           /\ backup_data' = r.value
           /\ pc' = IF r.raised = None THEN "loaded" ELSE "load_failed"
    /\ UNCHANGED <<calls, track_match_cache, backup_file>>
    /\ UNCHANGED <<envVars, mainVars, tidalVars, importVars, playlistVars, favVars, itemVars, loopVars>>

\* backup_data.get(key) is truthy: the key is there and its list is not empty.
get_truthy(data, key) == key \in DOMAIN data /\ data[key] # <<>>

\* ------------------------------------------------------- import_from_backup
\* sync.get_tidal_playlists_wrapper: the account's playlists by name.
playlists_by_name(pls) ==
    [n \in PlaylistNames |->
        LET hs == {h \in 1..Len(pls) : pls[h].name = n}
        IN  IF hs = {} THEN 0 ELSE CHOOSE h \in hs : \A g \in hs : g <= h]

\* Lines 457-470: read the snapshot, which ends the run if it is rejected,
\* then fetch the existing Tidal playlists.
import_start ==
    /\ pc = "start"
    /\ LET r == load_backup(backup_file)
       IN  IF r.raised # None
           THEN /\ error' = r.raised
                /\ pc' = "aborted"
                /\ UNCHANGED <<backup_data, calls, tidal_playlists, pl_i>>
           ELSE \E ok \in BOOLEAN :
                /\ error' = None
                /\ backup_data' = r.value
                /\ calls' = Append(calls, Call("playlists", "", "", <<>>, ok))
                /\ tidal_playlists' = IF ok THEN playlists_by_name(tidalPlaylists)
                                            ELSE tidal_playlists
                /\ pl_i' = 1
                /\ pc' = IF ok THEN "pl_next" ELSE "aborted"
    /\ UNCHANGED <<track_match_cache, backup_file>>
    /\ UNCHANGED <<envVars, mainVars, tidalVars, playlistVars, favVars, itemVars, loopVars>>

\* The for loop of line 473: the entry of the i-th iteration.
PlaylistsFromTheEnd(playlists, i) == playlists[Len(playlists) + 1 - i]
nth_playlist(playlists, i) == playlists[i]

\* Lines 473-482: the playlist loop picks the next snapshot playlist and the
\* Tidal playlist of its name, if the fetched mapping has one.  An entry
\* without 'name' ends the run with a KeyError (line 474).
import_next_playlist ==
    /\ pc = "pl_next"
    /\ IF pl_i > Len(backup_data.playlists)
       THEN /\ pc' = "fav_gate"
            /\ UNCHANGED <<playlistVars, error>>
       ELSE LET entry == nth_playlist(backup_data.playlists, pl_i)
            IN  IF entry.name = NoName
                THEN /\ error' = KeyError
                     /\ pc' = "aborted"
                     /\ UNCHANGED playlistVars
                ELSE /\ playlist_data' = entry
                     /\ tidal_playlist' = tidal_playlists[entry.name]
                     /\ old_tidal_tracks' = <<>>
                     /\ new_tidal_track_ids' = <<>>
                     /\ pc' = "pl_begin"
                     /\ UNCHANGED error
    /\ UNCHANGED <<calls, track_match_cache, backup_file, backup_data>>
    /\ UNCHANGED <<envVars, mainVars, tidalVars, importVars, favVars, itemVars, loopVars>>

\* Line 482: sync_playlist_from_backup returned; on to the next playlist.
import_playlist_done ==
    /\ pc = "pl_return"
    /\ pl_i' = pl_i + 1
    /\ pc' = "pl_next"
    /\ UNCHANGED <<calls, track_match_cache, tidal_playlists>>
    /\ UNCHANGED <<envVars, mainVars, loadVars, tidalVars, playlistVars, favVars, itemVars, loopVars>>

\* Lines 484-487: the favourites pass runs if asked for and the snapshot has
\* favourites.
import_favorites ==
    /\ pc = "fav_gate"
    /\ IF options.sync_favorites /\ get_truthy(backup_data, "favorites")
       THEN /\ favorites_data' = backup_data.favorites
            /\ pc' = "fav_begin"
       ELSE /\ pc' = "albums_gate"
            /\ UNCHANGED favorites_data
    /\ UNCHANGED <<calls, track_match_cache, new_ids>>
    /\ UNCHANGED <<envVars, mainVars, loadVars, tidalVars, importVars, playlistVars, itemVars, loopVars>>

\* Lines 489-492: the albums pass runs if asked for and the snapshot has albums.
AlbumsPassWhateverFlag ==
    /\ pc \in {"fav_return", "albums_gate"}
    /\ IF get_truthy(backup_data, "albums")
       THEN /\ items_data' = backup_data.albums
            /\ pc' = "albums_begin"
       ELSE /\ pc' = "artists_gate"
            /\ UNCHANGED items_data
    /\ UNCHANGED <<calls, track_match_cache, search_results, candidate, not_found, added_count>>
    /\ UNCHANGED <<envVars, mainVars, loadVars, tidalVars, importVars, playlistVars, favVars, loopVars>>
import_albums ==
    /\ pc \in {"fav_return", "albums_gate"}
    /\ IF options.sync_albums /\ get_truthy(backup_data, "albums")
       THEN /\ items_data' = backup_data.albums
            /\ pc' = "albums_begin"
       ELSE /\ pc' = "artists_gate"
            /\ UNCHANGED items_data
    /\ UNCHANGED <<calls, track_match_cache, search_results, candidate, not_found, added_count>>
    /\ UNCHANGED <<envVars, mainVars, loadVars, tidalVars, importVars, playlistVars, favVars, loopVars>>

\* Lines 494-497: the artists pass runs if asked for and the snapshot has
\* artists.
import_artists ==
    /\ pc \in {"albums_return", "artists_gate"}
    /\ IF options.sync_artists /\ get_truthy(backup_data, "artists")
       THEN /\ items_data' = backup_data.artists
            /\ pc' = "artists_begin"
       ELSE /\ pc' = "import_end"
            /\ UNCHANGED items_data
    /\ UNCHANGED <<calls, track_match_cache, search_results, candidate, not_found, added_count>>
    /\ UNCHANGED <<envVars, mainVars, loadVars, tidalVars, importVars, playlistVars, favVars, loopVars>>

\* Line 499: the run ends normally.
import_finish ==
    /\ pc \in {"artists_return", "import_end"}
    /\ pc' = "done"
    /\ UNCHANGED <<calls, track_match_cache>>
    /\ UNCHANGED <<envVars, mainVars, loadVars, tidalVars, importVars, playlistVars, favVars, itemVars, loopVars>>

\* ----------------------------------------------------------- initial states
Catalogs == [SpotifyTrackIds -> TidalTrackIds \cup {None}]
SnapshotTracks == SeqsUpTo(SpotifyTrackIds \cup {NoId}, MaxTracks)
SnapshotPlaylists ==
    [name : PlaylistNames, description : Descriptions \cup {Absent}, tracks : SnapshotTracks]
TidalPlaylist(n, ids) == [name |-> n, description |-> "", tracks |-> ids]
Options == [sync_favorites : BOOLEAN, sync_albums : BOOLEAN, sync_artists : BOOLEAN]
EmptySnapshot ==
    [version |-> BACKUP_VERSION, playlists |-> <<>>, favorites |-> <<>>, albums |-> <<>>,
     artists |-> <<>>]
\* A dict without some of its keys.
Without(data, keys) == [k \in DOMAIN data \ keys |-> data[k]]
\* The caches a run can hold when a pass starts: what earlier passes matched.
Caches == {c \in [SpotifyTrackIds -> TidalTrackIds \cup {None}] :
             \A s \in SpotifyTrackIds : c[s] \in {None, catalog[s]}}

TidalAtStart ==
    tidal0 = [playlists |-> tidalPlaylists, favTracks |-> favTracks,
              favAlbums |-> favAlbums, favArtists |-> favArtists]

\* A run of the import: main was given --import and has opened the Tidal
\* session; nothing is exported.
ImportArgs == [export |-> FALSE, import_file |-> TRUE, uri |-> FALSE]
NoReport == [albums |-> <<>>, artists |-> <<>>]
NoMain ==
    /\ args = ImportArgs
    /\ sessions = {"tidal"}
    /\ spotify_calls = <<>>
    /\ spotify_object = NoData
    /\ simplified = NoData
    /\ not_found_report = NoReport

NoImport ==
    /\ exported_data = EmptySnapshot
    /\ backup_file = json_dump(EmptySnapshot)
    /\ backup_data = EmptySnapshot
    /\ error = None
    /\ options = [sync_favorites |-> TRUE, sync_albums |-> TRUE, sync_artists |-> TRUE]
    /\ tidal_playlists = [n \in PlaylistNames |-> 0]
    /\ pl_i = 0

NoPlaylistPass ==
    /\ playlist_data = [name |-> "mix", description |-> "", tracks |-> <<>>]
    /\ tidal_playlist = 0
    /\ old_tidal_tracks = <<>>
    /\ new_tidal_track_ids = <<>>

NoFavoritesPass ==
    /\ favorites_data = <<>>
    /\ new_ids = <<>>

NoItemPass ==
    /\ items_data = <<>>
    /\ search_results = <<>>
    /\ candidate = None
    /\ not_found = <<>>
    /\ added_count = 0

\* One call of sync_playlist_from_backup, the first of a run: any snapshot
\* playlist, against no Tidal playlist or an existing one of that name.
InitPlaylist ==
    /\ pc = "pl_begin"
    /\ NoMain
    /\ calls = <<>>
    /\ catalog \in Catalogs
    /\ track_match_cache = EmptyCache
    /\ playlist_data \in {p \in SnapshotPlaylists : p.name = "mix"}
    /\ \E existing \in BOOLEAN, ids \in SeqsUpTo(TidalTrackIds, MaxOld) :
         /\ existing \/ ids = <<>>
         /\ tidalPlaylists = IF existing THEN <<TidalPlaylist("mix", ids)>> ELSE <<>>
         /\ tidal_playlist = IF existing THEN 1 ELSE 0
    /\ favTracks = {}
    /\ favAlbums = {}
    /\ favArtists = {}
    /\ TidalAtStart
    /\ old_tidal_tracks = <<>>
    /\ new_tidal_track_ids = <<>>
    /\ known = {}
    /\ item_i = 0
    /\ NoImport /\ NoFavoritesPass /\ NoItemPass

NextPlaylist ==
    \/ sync_playlist_enter
    \/ sync_playlist_match
    \/ sync_playlist_update
    \/ sync_playlist_rewrite

SpecPlaylist == InitPlaylist /\ [][NextPlaylist]_vars

\* One call of sync_favorites_from_backup: any favourites list, any set of
\* existing favourite tracks, any cache the playlist passes can have left.
InitFavorites ==
    /\ pc = "fav_begin"
    /\ NoMain
    /\ calls = <<>>
    /\ catalog \in Catalogs
    /\ track_match_cache \in Caches
    /\ favorites_data \in SnapshotTracks
    /\ new_ids = <<>>
    /\ tidalPlaylists = <<>>
    /\ favTracks \in SUBSET TidalTrackIds
    /\ favAlbums = {}
    /\ favArtists = {}
    /\ TidalAtStart
    /\ known = {}
    /\ item_i = 0
    /\ NoImport /\ NoPlaylistPass /\ NoItemPass

NextFavorites ==
    \/ sync_favorites_enter
    \/ sync_favorites_match
    \/ sync_favorites_add

SpecFavorites == InitFavorites /\ [][NextFavorites]_vars

\* One call of sync_albums_from_backup or of sync_artists_from_backup: any
\* list, any set of existing favourites of the kind the pass is about.
InitItems ==
    /\ pc \in {"albums_begin", "artists_begin"}
    /\ NoMain
    /\ calls = <<>>
    /\ catalog = [s \in SpotifyTrackIds |-> None]
    /\ track_match_cache = EmptyCache
    /\ items_data \in SeqsUpTo(SpotifyItems, MaxItems)
    /\ search_results = <<>>
    /\ candidate = None
    /\ not_found = <<>>
    /\ added_count = 0
    /\ tidalPlaylists = <<>>
    /\ favTracks = {}
    /\ favAlbums \in SUBSET TidalItemIds
    /\ favArtists \in SUBSET TidalItemIds
    /\ pc = "albums_begin" => favArtists = {}
    /\ pc = "artists_begin" => favAlbums = {}
    /\ TidalAtStart
    /\ known = {}
    /\ item_i = 0
    /\ NoImport /\ NoPlaylistPass /\ NoFavoritesPass

NextItems ==
    \/ sync_albums_enter
    \/ sync_albums_search
    \/ sync_albums_match
    \/ sync_albums_add
    \/ sync_artists_enter
    \/ sync_artists_search
    \/ sync_artists_match
    \/ sync_artists_add

SpecItems == InitItems /\ [][NextItems]_vars

\* A snapshot is written to a file and the file is read by load_backup: any
\* dict with any of the keys, of any version.
LoadSnapshots ==
    {Without(d, keys) :
        d \in [version : 0..MaxVersion,
               playlists : {<<>>, <<[name |-> "mix", description |-> "", tracks |-> <<"s1">>]>>},
               favorites : {<<>>, <<"s1">>},
               albums : {<<>>, <<"a1">>},
               artists : {<<>>, <<"a2">>}],
        keys \in SUBSET Range(BackupKeys)}

InitLoad ==
    /\ pc = "write"
    /\ NoMain
    /\ calls = <<>>
    /\ catalog = [s \in SpotifyTrackIds |-> None]
    /\ track_match_cache = EmptyCache
    /\ exported_data \in LoadSnapshots
    /\ backup_file = <<>>
    /\ backup_data = NoData
    /\ error = None
    /\ options = [sync_favorites |-> TRUE, sync_albums |-> TRUE, sync_artists |-> TRUE]
    /\ tidal_playlists = [n \in PlaylistNames |-> 0]
    /\ pl_i = 0
    /\ tidalPlaylists = <<>>
    /\ favTracks = {}
    /\ favAlbums = {}
    /\ favArtists = {}
    /\ TidalAtStart
    /\ known = {}
    /\ item_i = 0
    /\ NoPlaylistPass /\ NoFavoritesPass /\ NoItemPass

NextLoad ==
    \/ write_backup
    \/ read_backup

SpecLoad == InitLoad /\ [][NextLoad]_vars

\* A whole run of import_from_backup.
MaxPlaylists == 2   \* most playlists of a snapshot in a whole run
ImportPlaylists ==
    { [name |-> "mix", description |-> "for the road", tracks |-> <<"s1">>],
      [name |-> "mix", description |-> Absent, tracks |-> <<"s2", "s1">>],
      [name |-> "road", description |-> "", tracks |-> <<>>] }
ImportCatalogs ==
    { [s \in SpotifyTrackIds |-> IF s = "s1" THEN "t1" ELSE "t2"],
      [s \in SpotifyTrackIds |-> IF s = "s1" THEN "t1" ELSE None] }

\* The snapshots of a whole run: those an export writes, with every key (the
\* ones with several playlists have no albums and no artists, the ones with
\* more than two no favourites either), and files of
\* other versions and with keys missing.
ExportedSnapshots ==
    {s \in [version : {BACKUP_VERSION},
            playlists : SeqsUpTo(ImportPlaylists, MaxPlaylists),
            favorites : {<<>>, <<"s1">>, <<"s2", "s2">>},
            albums : {<<>>, <<"a1">>},
            artists : {<<>>, <<"a2">>}] :
        /\ Len(s.playlists) > 1 => (s.albums = <<>> /\ s.artists = <<>>)
        /\ Len(s.playlists) > 2 => s.favorites = <<>>}
OtherSnapshots ==
    {Without([version |-> v, playlists |-> <<>>, favorites |-> <<"s1">>,
              albums |-> <<"a1">>, artists |-> <<"a2">>], keys) :
        v \in 1..MaxVersion, keys \in SUBSET Range(BackupKeys)}

\* Snapshots with an entry that has no 'name': a playlist after a playlist
\* that has one, and an album.
NamelessSnapshots ==
    { [version |-> BACKUP_VERSION,
       playlists |-> <<[name |-> "mix", description |-> "", tracks |-> <<"s1">>],
                       [name |-> NoName, description |-> "", tracks |-> <<"s1">>]>>,
       favorites |-> <<>>, albums |-> <<>>, artists |-> <<>>],
      [version |-> BACKUP_VERSION,
       playlists |-> <<>>, favorites |-> <<"s2">>, albums |-> <<NoName>>, artists |-> <<>>] }

Init ==
    /\ pc = "start"
    /\ NoMain
    /\ calls = <<>>
    /\ catalog \in ImportCatalogs
    /\ track_match_cache = EmptyCache
    /\ exported_data \in ExportedSnapshots \cup OtherSnapshots \cup NamelessSnapshots
    /\ backup_file = json_dump(exported_data)
    /\ backup_data = NoData
    /\ error = None
    /\ options \in Options
    /\ tidal_playlists = [n \in PlaylistNames |-> 0]
    /\ pl_i = 0
    /\ tidalPlaylists \in {<<>>, <<TidalPlaylist("mix", <<"t1">>)>>}
    /\ favTracks = {"t1"}
    /\ favAlbums = {"x1"}
    /\ favArtists = {"x2"}
    /\ TidalAtStart
    /\ known = {}
    /\ item_i = 0
    /\ NoPlaylistPass /\ NoFavoritesPass /\ NoItemPass

Next ==
    \/ import_start
    \/ import_next_playlist
    \/ import_playlist_done
    \/ import_favorites
    \/ import_albums
    \/ import_artists
    \/ import_finish
    \/ NextPlaylist
    \/ NextFavorites
    \/ NextItems

Spec == Init /\ [][Next]_vars


\* ------------------------------------------------------------------- main
\* __main__.py 39-64 and 66-75: the sessions a run opens, by its mode.
OpensBothSessions(a) == {"spotify", "tidal"}
sessions_opened(a) ==
    IF a.export THEN {"spotify"}
    ELSE IF a.import_file THEN {"tidal"}
    ELSE {"spotify", "tidal"}

\* __main__.py 27-64: the options that exclude each other end the run; export
\* opens the Spotify session only, import the Tidal session only and goes on
\* when check_login succeeds; any other run is the direct sync (sync.py).
main ==
    /\ pc = "main"
    /\ IF \/ args.export /\ args.import_file
          \/ args.export /\ args.uri
          \/ args.import_file /\ args.uri
       THEN /\ pc' = "exited"
            /\ UNCHANGED sessions
       ELSE /\ sessions' = sessions_opened(args)
            /\ IF args.export THEN pc' = "export"
               ELSE IF args.import_file THEN pc' \in {"start", "exited"}
               ELSE pc' = "sync"
    /\ UNCHANGED <<calls, track_match_cache, spotify_calls, simplified>>
    /\ UNCHANGED <<envVars, loadVars, tidalVars, importVars, playlistVars, favVars, itemVars, loopVars>>

\* backup.py 120-156: the calls export_spotify_data makes to Spotify for a
\* library s, in the order of the code.
spotify_fetches(s, opts) ==
    <<"current_user", "playlists">>
    \o [i \in 1..Len(s.playlists) |-> "playlist_tracks"]
    \o (IF opts.sync_favorites THEN <<"favorites">> ELSE <<>>)
    \o (IF opts.sync_albums THEN <<"albums">> ELSE <<>>)
    \o (IF opts.sync_artists THEN <<"artists">> ELSE <<>>)

\* backup.py 134-170: the snapshot export_spotify_data builds from what
\* Spotify returned; a kind that is not included stays the empty list.
BackupOmitsExcluded(library, opts) ==
    Without([version |-> BACKUP_VERSION,
             playlists |-> library.playlists,
             favorites |-> library.favorites,
             albums |-> library.albums,
             artists |-> library.artists],
            {k \in {"favorites", "albums", "artists"} : ~opts["sync_" \o k]})
export_backup_data(library, opts) ==
    [version |-> BACKUP_VERSION,
     playlists |-> library.playlists,
     favorites |-> IF opts.sync_favorites THEN library.favorites ELSE <<>>,
     albums |-> IF opts.sync_albums THEN library.albums ELSE <<>>,
     artists |-> IF opts.sync_artists THEN library.artists ELSE <<>>]

\* What the Spotify account holds.
SpotifyLibraries == {Without(s, {"version"}) : s \in ExportedSnapshots}

\* backup.py 120-170: export_spotify_data reads the library from Spotify,
\* leaving out the kinds that are not included, and builds the snapshot.  A
\* call that raises ends the run before anything is written.
export_spotify_data ==
    /\ pc = "export"
    /\ \E library \in SpotifyLibraries :
       LET fetches == spotify_fetches(library, options)
       IN  \E n \in 1..Len(fetches), ok \in BOOLEAN :
           /\ spotify_calls' = SubSeq(fetches, 1, n)
           /\ IF ok /\ n = Len(fetches)
              THEN /\ exported_data' = export_backup_data(library, options)
                   /\ pc' = "write"
              ELSE /\ UNCHANGED exported_data
                   /\ pc' = "aborted"
    /\ UNCHANGED <<calls, track_match_cache, sessions, simplified>>
    /\ UNCHANGED <<catalog, tidal0, options, args, spotify_object, not_found_report>>
    /\ UNCHANGED <<loadVars, tidalVars, importVars, playlistVars, favVars, itemVars, loopVars>>

\* The files a run of main can find: written by an earlier export (at most
\* one playlist), or not a snapshot this version reads.
MainSnapshots ==
    {s \in ExportedSnapshots : Len(s.playlists) <= 1}
    \cup {Without(EmptySnapshot, {"version"})}

\* A run of the program: any combination of --export, --import and --uri,
\* any --sync-* flags.
InitMain ==
    /\ pc = "main"
    /\ args \in [export : BOOLEAN, import_file : BOOLEAN, uri : BOOLEAN]
    /\ sessions = {}
    /\ spotify_calls = <<>>
    /\ spotify_object = NoData
    /\ simplified = NoData
    /\ not_found_report = NoReport
    /\ calls = <<>>
    /\ catalog \in ImportCatalogs
    /\ track_match_cache = EmptyCache
    /\ exported_data \in MainSnapshots
    /\ backup_file = json_dump(exported_data)
    /\ backup_data = NoData
    /\ error = None
    /\ options \in Options
    /\ tidal_playlists = [n \in PlaylistNames |-> 0]
    /\ pl_i = 0
    /\ tidalPlaylists \in {<<>>, <<TidalPlaylist("mix", <<"t1">>)>>}
    /\ favTracks = {"t1"}
    /\ favAlbums = {"x1"}
    /\ favArtists = {"x2"}
    /\ TidalAtStart
    /\ known = {}
    /\ item_i = 0
    /\ NoPlaylistPass /\ NoFavoritesPass /\ NoItemPass

NextMain ==
    \/ main
    \/ export_spotify_data
    \/ write_backup
    \/ Next

SpecMain == InitMain /\ [][NextMain]_vars

\* An export, and load_backup on the file it wrote.
InitExport ==
    /\ InitMain
    /\ args = [export |-> TRUE, import_file |-> FALSE, uri |-> FALSE]
    /\ exported_data = EmptySnapshot
    /\ tidalPlaylists = <<>>

NextExport ==
    \/ main
    \/ export_spotify_data
    \/ write_backup
    \/ read_backup

SpecExport == InitExport /\ [][NextExport]_vars

\* ------------------------------------------------------ the _simplify_* family
MaxArtists == 2     \* most artists of a track or an album
\* A field that is there with the value None (JSON null), as opposed to one
\* that is missing.
Null == [null |-> TRUE]
\* d.get(key, default)
dict_get(d, key, default) == IF key \in DOMAIN d THEN d[key] ELSE default
\* [{'name': a.get('name')} for a in artists]
names_only(artists) ==
    [i \in 1..Len(artists) |-> [name |-> dict_get(artists[i], "name", None)]]

\* Lines 50-63.
TrackWithEveryField(track) ==
    [k \in DOMAIN track \cup {"id", "name", "duration_ms", "track_number",
                              "external_ids", "artists", "album"} |->
        dict_get(track, k, IF k = "artists" THEN <<>>
                           ELSE IF k \in {"album", "external_ids"} THEN NoData
                           ELSE None)]
_simplify_track(track) ==
    [id |-> dict_get(track, "id", None),
     name |-> dict_get(track, "name", None),
     duration_ms |-> dict_get(track, "duration_ms", None),
     track_number |-> dict_get(track, "track_number", None),
     external_ids |-> dict_get(track, "external_ids", NoData),
     artists |-> names_only(dict_get(track, "artists", <<>>)),
     album |-> [name |-> dict_get(dict_get(track, "album", NoData), "name", None),
                artists |-> names_only(dict_get(dict_get(track, "album", NoData),
                                                "artists", <<>>))]]
\* Lines 60-61: track.get('album', {}) is None when the field is there with
\* the value None, and None.get raises.
AttributeError == "AttributeError: 'NoneType' object has no attribute 'get'"
simplify_track_raises(track) == "album" \in DOMAIN track /\ track.album = Null

\* Lines 66-73.
_simplify_playlist(playlist, tracks) ==
    [id |-> dict_get(playlist, "id", None),
     name |-> dict_get(playlist, "name", None),
     description |-> dict_get(playlist, "description", ""),
     tracks |-> [i \in 1..Len(tracks) |-> _simplify_track(tracks[i])]]

\* Lines 76-82.
_simplify_album(album) ==
    [id |-> dict_get(album, "id", None),
     name |-> dict_get(album, "name", None),
     artists |-> names_only(dict_get(album, "artists", <<>>))]

\* Lines 85-90.
_simplify_artist(artist) ==
    [id |-> dict_get(artist, "id", None),
     name |-> dict_get(artist, "name", None)]

\* Lines 133, 140, 147, 154: export_spotify_data simplifies what Spotify
\* returned, one object at a time.
simplify(result) ==
    /\ simplified' = result
    /\ pc' = "simplified"
    /\ UNCHANGED error
simplify_failed ==
    /\ error' = AttributeError
    /\ pc' = "aborted"
    /\ UNCHANGED simplified

export_track ==
    /\ pc = "simplify"
    /\ spotify_object.kind = "track"
    /\ IF simplify_track_raises(spotify_object.data)
       THEN simplify_failed
       ELSE simplify(_simplify_track(spotify_object.data))
    /\ UNCHANGED <<calls, track_match_cache, sessions, spotify_calls, backup_file, backup_data>>
    /\ UNCHANGED <<envVars, tidalVars, importVars, playlistVars, favVars, itemVars, loopVars>>

export_playlist ==
    /\ pc = "simplify"
    /\ spotify_object.kind = "playlist"
    /\ IF \E i \in 1..Len(spotify_object.tracks) :
             simplify_track_raises(spotify_object.tracks[i])
       THEN simplify_failed
       ELSE simplify(_simplify_playlist(spotify_object.data, spotify_object.tracks))
    /\ UNCHANGED <<calls, track_match_cache, sessions, spotify_calls, backup_file, backup_data>>
    /\ UNCHANGED <<envVars, tidalVars, importVars, playlistVars, favVars, itemVars, loopVars>>

export_album ==
    /\ pc = "simplify"
    /\ spotify_object.kind = "album"
    /\ simplify(_simplify_album(spotify_object.data))
    /\ UNCHANGED <<calls, track_match_cache, sessions, spotify_calls, backup_file, backup_data>>
    /\ UNCHANGED <<envVars, tidalVars, importVars, playlistVars, favVars, itemVars, loopVars>>

export_artist ==
    /\ pc = "simplify"
    /\ spotify_object.kind = "artist"
    /\ simplify(_simplify_artist(spotify_object.data))
    /\ UNCHANGED <<calls, track_match_cache, sessions, spotify_calls, backup_file, backup_data>>
    /\ UNCHANGED <<envVars, tidalVars, importVars, playlistVars, favVars, itemVars, loopVars>>

\* What Spotify returns: objects with any of their fields missing and with
\* fields the snapshot has no use for.
ArtistRefs == {[name |-> "Ann", id |-> "ar1"], [id |-> "ar2"]}
ArtistLists == SeqsUpTo(ArtistRefs, MaxArtists)
SubDicts(d) == {Without(d, keys) : keys \in SUBSET DOMAIN d}
AlbumRefs ==
    UNION {SubDicts([name |-> "LP", artists |-> l, id |-> "al1"]) : l \in ArtistLists}
    \cup {Null}
SpotifyTracks ==
    UNION {SubDicts([id |-> "sp1", name |-> "Song", duration_ms |-> "180000",
                     track_number |-> "3", external_ids |-> [isrc |-> "US1"],
                     artists |-> l, album |-> a, popularity |-> "50"]) :
           l \in {<<>>, <<[name |-> "Ann", id |-> "ar1"], [id |-> "ar2"]>>},
           a \in AlbumRefs}
SpotifyAlbums ==
    UNION {SubDicts([id |-> "al1", name |-> "LP", artists |-> l, label |-> "EMI"]) :
           l \in ArtistLists}
SpotifyArtists == SubDicts([id |-> "ar1", name |-> "Ann", genres |-> <<"pop">>])
SpotifyPlaylists ==
    SubDicts([id |-> "pl1", name |-> "mix", description |-> "for the road",
              owner |-> "me"])
PlaylistTracks ==
    {<<>>,
     <<[id |-> "sp1", popularity |-> "50"]>>,
     <<[id |-> "sp1", name |-> "Song", album |-> [name |-> "LP", id |-> "al1"]],
       [name |-> "Song", artists |-> <<[id |-> "ar2"]>>]>>,
     <<[id |-> "sp1"], [id |-> "sp2", album |-> Null]>>}
SpotifyObjects ==
    {[kind |-> "track", data |-> t] : t \in SpotifyTracks}
    \cup {[kind |-> "album", data |-> a] : a \in SpotifyAlbums}
    \cup {[kind |-> "artist", data |-> a] : a \in SpotifyArtists}
    \cup {[kind |-> "playlist", data |-> p, tracks |-> ts] :
          p \in SpotifyPlaylists, ts \in PlaylistTracks}

ExportArgs == [export |-> TRUE, import_file |-> FALSE, uri |-> FALSE]
InitSimplify ==
    /\ pc = "simplify"
    /\ args = ExportArgs
    /\ sessions = {"spotify"}
    /\ spotify_calls = <<>>
    /\ spotify_object \in SpotifyObjects
    /\ simplified = NoData
    /\ not_found_report = NoReport
    /\ calls = <<>>
    /\ catalog = [s \in SpotifyTrackIds |-> None]
    /\ track_match_cache = EmptyCache
    /\ tidalPlaylists = <<>>
    /\ favTracks = {}
    /\ favAlbums = {}
    /\ favArtists = {}
    /\ TidalAtStart
    /\ known = {}
    /\ item_i = 0
    /\ NoImport /\ NoPlaylistPass /\ NoFavoritesPass /\ NoItemPass

NextSimplify ==
    \/ export_track
    \/ export_playlist
    \/ export_album
    \/ export_artist

SpecSimplify == InitSimplify /\ [][NextSimplify]_vars

\* ------------------------------------------------------ the import, run twice
\* The program is started again on the same file after a run that ended
\* normally and in which no call raised (__main__.py 52-64, backup.py
\* 517-529): a new process, with an empty match cache and no locals; the
\* account is as the first run left it.
import_again ==
    /\ pc = "done"
    /\ Len(CallsOf({"playlists"})) = 1
    /\ \A i \in 1..Len(calls) : calls[i].ok
    /\ pc' = "start"
    /\ track_match_cache' = EmptyCache
    /\ backup_data' = NoData
    /\ error' = None
    /\ tidal_playlists' = [n \in PlaylistNames |-> 0]
    /\ pl_i' = 0
    /\ playlist_data' = [name |-> "mix", description |-> "", tracks |-> <<>>]
    /\ tidal_playlist' = 0
    /\ old_tidal_tracks' = <<>>
    /\ new_tidal_track_ids' = <<>>
    /\ favorites_data' = <<>>
    /\ new_ids' = <<>>
    /\ items_data' = <<>>
    /\ search_results' = <<>>
    /\ candidate' = None
    /\ not_found' = <<>>
    /\ added_count' = 0
    /\ known' = {}
    /\ item_i' = 0
    /\ UNCHANGED <<calls, backup_file>>
    /\ UNCHANGED <<envVars, mainVars, tidalVars>>

\* Two runs of the import on a file the export wrote.
InitTwice ==
    /\ Init
    /\ exported_data \in ExportedSnapshots

NextTwice ==
    \/ Next
    \/ import_again

SpecTwice == InitTwice /\ [][NextTwice]_vars
\* ------------------------------------------------------------------ claims
IsPrefix(a, b) == Len(a) <= Len(b) /\ \A i \in 1..Len(a) : a[i] = b[i]
\* A call list with the outcome of every call forgotten.
Issued(s) == [i \in 1..Len(s) |-> [s[i] EXCEPT !.ok = TRUE]]
UpdateCalls == CallsOf({"clear", "append"})
ClearCall == Call("clear", playlist_data.name, "", <<>>, TRUE)
AppendCall(ids) == Call("append", playlist_data.name, "", ids, TRUE)
CreateCall ==
    Call("create_playlist", playlist_data.name, description_of(playlist_data), <<>>, TRUE)
Mismatch == ~IsPrefix(old_tidal_tracks, new_tidal_track_ids)
ProperPrefix ==
    IsPrefix(old_tidal_tracks, new_tidal_track_ids) /\ old_tidal_tracks # new_tidal_track_ids

\* C1: when the playlist's current id list is neither equal to nor a prefix of
\* the resolved list, the clear and append calls issued are, in this order, one
\* clear and then one append carrying the resolved list in full: never more,
\* never in another order, and exactly these two once the pass has returned.
C1_MismatchClearsThenAppendsAll ==
    Mismatch =>
        /\ IsPrefix(Issued(UpdateCalls), <<ClearCall, AppendCall(new_tidal_track_ids)>>)
        /\ pc = "pl_return" =>
             UpdateCalls = <<ClearCall, AppendCall(new_tidal_track_ids)>>

C1_Witness ==
    /\ pc = "pl_return"
    /\ Mismatch
    /\ Len(old_tidal_tracks) = 2
    /\ Len(new_tidal_track_ids) = 2
    /\ tidalPlaylists[tidal_playlist].tracks = new_tidal_track_ids

\* C2: when the current id list is a proper prefix of the resolved list (an
\* empty current list included), no clear is issued and the only append carries
\* exactly the missing suffix; once the pass has returned it has been issued.
C2_PrefixAppendsSuffixOnly ==
    ProperPrefix =>
        LET suffix == Drop(new_tidal_track_ids, Len(old_tidal_tracks))
        IN  /\ IsPrefix(Issued(UpdateCalls), <<AppendCall(suffix)>>)
            /\ pc = "pl_return" => UpdateCalls = <<AppendCall(suffix)>>

C2_Witness ==
    /\ pc = "pl_return"
    /\ ProperPrefix
    /\ Len(old_tidal_tracks) = 2
    /\ Len(new_tidal_track_ids) = 3
    /\ UpdateCalls = <<AppendCall(<<new_tidal_track_ids[3]>>)>>

\* C3: when the current id list of an existing playlist equals the resolved
\* list, the pass issues no create, clear or append call and the Tidal account
\* is as it was when the pass started.
C3_EqualNoMutation ==
    (tidal0.playlists # <<>> /\ pc \in {"pl_update", "pl_return"}
       /\ old_tidal_tracks = new_tidal_track_ids) =>
        /\ CallsOf(MutationOps) = <<>>
        /\ tidalPlaylists = tidal0.playlists

C3_Witness ==
    /\ pc = "pl_return"
    /\ tidal0.playlists # <<>>
    /\ Len(old_tidal_tracks) = 2
    /\ old_tidal_tracks = new_tidal_track_ids
    /\ Len(calls) > 0

\* C4 (as claimed): when the resolved list is empty, no playlist is created and
\* no clear or append is issued on an existing one.
C4_EmptyNewNoMutation ==
    (pc = "pl_return" /\ new_tidal_track_ids = <<>>) =>
        CallsOf({"create_playlist", "clear", "append"}) = <<>>

\* C5 (as claimed): for a playlist with at least one track and no Tidal
\* playlist of its name, the first call is the create, with the snapshot's name
\* and description, and the only further mutation is one append of the
\* resolved list.
C5_CreateThenOneAppend ==
    (pc = "pl_return" /\ Len(playlist_data.tracks) > 0 /\ tidal0.playlists = <<>>) =>
        /\ calls[1] = CreateCall
        /\ CallsOf(MutationOps) = <<CreateCall, AppendCall(new_tidal_track_ids)>>

\* ---- the unordered passes
AddOps == {"add_album", "add_artist"}
SearchOps == {"search_albums", "search_artists"}
\* How many calls `op` carrying exactly the id d were issued / returned.
Issues(op, d) == Len(SelectSeq(calls, LAMBDA c : c.op = op /\ c.ids = <<d>>))
Successes(op, d) == Len(SelectSeq(calls, LAMBDA c : c.op = op /\ c.ids = <<d>> /\ c.ok))

\* C6 (as claimed): once the favourites pass has returned, every distinct
\* resolved id that was not a favourite has got exactly one add_track call and
\* every other id none.
C6_OneAddPerDistinctNewId ==
    pc = "fav_return" =>
        LET resolved == {track_match_cache[s] :
                           s \in Range(favorites_data) \ {NoId}} \ {None}
        IN  \A d \in TidalTrackIds :
              Issues("add_track", d) =
                  IF d \in resolved /\ d \notin tidal0.favTracks THEN 1 ELSE 0

\* The album / artist pass under way, read off its first call.
PassKind == IF calls[1].op = "favorite_albums" THEN "albums" ELSE "artists"
Favourites0 == IF PassKind = "albums" THEN tidal0.favAlbums ELSE tidal0.favArtists
\* The favourites the pass knows of at its start: what the fetch returned.
Fetched == IF calls[1].ok THEN Favourites0 ELSE {}
\* The ids successfully added by the calls before the i-th.
AddedBefore(i) == {calls[j].ids[1] : j \in {j \in 1..(i - 1) : calls[j].op \in AddOps /\ calls[j].ok}}
PassReturned == pc \in {"albums_return", "artists_return"} /\ calls # <<>>
Matched == {calls[i].ids[1] : i \in {i \in 1..Len(calls) : calls[i].op \in SearchOps /\ calls[i].ids # <<>>}}

\* C7 (as claimed): no add_album / add_artist call is for an id that was a
\* favourite when the pass started or that an earlier call of the pass added,
\* and on return every matched id that was not a favourite has exactly one
\* successful add call.
C7_NeverReaddedExactlyOnce ==
    calls # <<>> =>
        /\ \A i \in 1..Len(calls) :
             calls[i].op \in AddOps =>
                 calls[i].ids[1] \notin Favourites0 \cup AddedBefore(i)
        /\ PassReturned =>
             \A d \in Matched \ Favourites0 : Successes(AddOp(PassKind), d) = 1

\* C7 (amended): no add call is for an id the fetch of the existing favourites
\* returned (none if the fetch failed) or that an earlier call of the pass
\* added; on return every matched id the fetch did not return has got an add
\* call, at most one of them successful, and exactly one call, successful,
\* when no add call for it failed.
C7_NeverReaddedOnceKnown ==
    calls # <<>> =>
        /\ \A i \in 1..Len(calls) :
             calls[i].op \in AddOps =>
                 calls[i].ids[1] \notin Fetched \cup AddedBefore(i)
        /\ PassReturned =>
             \A d \in Matched \ Fetched :
                 LET op == AddOp(PassKind)
                 IN  /\ Issues(op, d) >= 1
                     /\ Successes(op, d) <= 1
                     /\ Issues(op, d) = Successes(op, d) => Issues(op, d) = 1

C7_Witness ==
    /\ PassReturned
    /\ calls[1].ok
    /\ Favourites0 = {"x1"}
    /\ Len(calls) = 4
    /\ calls[2].ids = <<"x2">>
    /\ calls[3].op \in AddOps /\ calls[3].ok
    /\ calls[4].op \in SearchOps /\ calls[4].ids = <<"x2">>

\* C8: whatever the snapshot holds, at every point of a run every favourite
\* track, album and artist the account had at the start is still a favourite,
\* and no call other than the reads, searches, creates, clears, appends and
\* adds is issued.
C8_FavouritesOnlyGrow ==
    /\ tidal0.favTracks \subseteq favTracks
    /\ tidal0.favAlbums \subseteq favAlbums
    /\ tidal0.favArtists \subseteq favArtists
    /\ \A i \in 1..Len(calls) :
         calls[i].op \in MutationOps \cup SearchOps \cup
             {"playlists", "playlist_tracks", "search_tracks", "favorite_tracks",
              "favorite_albums", "favorite_artists"}

C8_Witness ==
    /\ pc = "done"
    /\ favTracks = {"t1", "t2"}
    /\ favAlbums = {"x1", "x2"}
    /\ favArtists = {"x1", "x2"}
    /\ tidal0.favTracks = {"t1"}

\* C9: a raising add_album / add_artist never ends the pass: the pass does not
\* abort, on return every item of the list has been searched, in order, and
\* every search whose match was not a known favourite is followed by its add.
C9_AddFailureDoesNotAbort ==
    /\ pc # "aborted"
    /\ calls # <<>> =>
        /\ \A i \in 1..Len(calls) :
             (calls[i].op \in SearchOps /\ calls[i].ids # <<>>
                /\ calls[i].ids[1] \notin Fetched \cup AddedBefore(i)
                /\ (i < Len(calls) \/ PassReturned)) =>
                 /\ i < Len(calls)
                 /\ calls[i + 1].op = AddOp(PassKind)
                 /\ calls[i + 1].ids = calls[i].ids
        /\ PassReturned =>
             LET searches == CallsOf(SearchOps)
             IN  [i \in 1..Len(searches) |-> searches[i].name] = items_data

C9_Witness ==
    /\ PassReturned
    /\ Len(calls) = 5
    /\ calls[3].op \in AddOps /\ ~calls[3].ok
    /\ calls[4].op \in SearchOps
    /\ calls[5].op \in AddOps /\ calls[5].ok

\* C10 (as claimed): a raising add_track is caught and never ends the run: a
\* run that was asked for the albums of a snapshot that has some goes on to
\* them.
C10_AddTrackFailureDoesNotAbort ==
    (/\ calls # <<>>
     /\ calls[Len(calls)].op = "add_track"
     /\ ~calls[Len(calls)].ok
     /\ options.sync_albums
     /\ get_truthy(exported_data, "albums")) => pc # "aborted"

\* ---- failures of the reads
FetchOps == {"favorite_tracks", "favorite_albums", "favorite_artists"}

\* C11 (as claimed): for each of the three unordered kinds, a raising fetch of
\* the existing favourites is caught: the run is never ended by it.
C11_FetchFailureAssumesEmpty ==
    (/\ calls # <<>>
     /\ calls[Len(calls)].op \in FetchOps
     /\ ~calls[Len(calls)].ok) => pc # "aborted"

\* ---- the snapshot file
\* The file as json.load parses it, and whether load_backup has been called.
Parsed == json_load(backup_file)
HasKey(k) == k \in DOMAIN Parsed
WasRead == pc \in {"loaded", "load_failed"}
NewerVersion == HasKey("version") /\ Parsed.version > BACKUP_VERSION
KnownVersion == HasKey("version") /\ Parsed.version <= BACKUP_VERSION

\* C12: load_backup of a file without 'version' raises the missing-version
\* error, whichever other keys the file has, 'playlists' included.
C12_NoVersionRaisesMissingVersion ==
    (WasRead /\ ~HasKey("version")) =>
        /\ pc = "load_failed"
        /\ error = MissingVersion

C12_Witness ==
    /\ pc = "load_failed"
    /\ ~HasKey("version")
    /\ ~HasKey("playlists")
    /\ HasKey("albums")
    /\ error = MissingVersion

\* C13: load_backup of a file whose 'version' is greater than BACKUP_VERSION
\* raises the unsupported-version error, with or without 'playlists'; whatever
\* load_backup returns has a version that is at most BACKUP_VERSION.
C13_NewerVersionRaisesUnsupported ==
    /\ (WasRead /\ NewerVersion) =>
          /\ pc = "load_failed"
          /\ error = UnsupportedVersion
    /\ pc = "loaded" => backup_data.version <= BACKUP_VERSION

C13_Witness ==
    /\ pc = "load_failed"
    /\ NewerVersion
    /\ ~HasKey("playlists")
    /\ error = UnsupportedVersion

\* C14: load_backup of a file with a 'version' that is at most BACKUP_VERSION
\* and without 'playlists' raises the missing-playlists error.
C14_NoPlaylistsRaisesMissingPlaylists ==
    (WasRead /\ KnownVersion /\ ~HasKey("playlists")) =>
        /\ pc = "load_failed"
        /\ error = MissingPlaylists

C14_Witness ==
    /\ pc = "load_failed"
    /\ KnownVersion
    /\ Parsed.version = BACKUP_VERSION
    /\ ~HasKey("playlists")
    /\ HasKey("favorites")
    /\ error = MissingPlaylists

\* C15: load_backup of a file with a 'version' that is at most BACKUP_VERSION
\* and with 'playlists' raises nothing and returns the parsed data, also for a
\* version-1 file with neither 'albums' nor 'artists'.
C15_ValidSnapshotIsAccepted ==
    (WasRead /\ KnownVersion /\ HasKey("playlists")) =>
        /\ pc = "loaded"
        /\ error = None
        /\ backup_data = Parsed

C15_Witness ==
    /\ pc = "loaded"
    /\ Parsed.version = 1
    /\ ~HasKey("albums")
    /\ ~HasKey("artists")
    /\ Len(backup_data.playlists) = 1

\* In a run of the import: load_backup has returned the snapshot.
Loaded == pc # "start" /\ error = None
KindOps(k) ==
    IF k = "albums" THEN {"favorite_albums", "search_albums", "add_album"}
    ELSE {"favorite_artists", "search_artists", "add_artist"}

\* C16 (as claimed): for a file without 'albums' or without 'artists', what
\* load_backup returns has the empty list for that key.
C16_MissingFieldReturnedEmpty ==
    Loaded =>
        \A k \in {"albums", "artists"} :
            ~HasKey(k) => (k \in DOMAIN backup_data /\ backup_data[k] = <<>>)

\* C16 (amended): for a file without 'albums' or without 'artists', what
\* load_backup returns does not have the key either, and the import treats it
\* as an empty list: the pass of that kind is never entered, no call of that
\* kind is issued and the favourites of that kind stay as they were.
C16_MissingFieldImportedAsEmpty ==
    Loaded =>
        \A k \in {"albums", "artists"} :
            ~HasKey(k) =>
                /\ k \notin DOMAIN backup_data
                /\ pc \notin {At(k, "begin"), At(k, "search"), At(k, "add"), At(k, "return")}
                /\ CallsOf(KindOps(k)) = <<>>
                /\ favAlbums = (IF k = "albums" THEN tidal0.favAlbums ELSE favAlbums)
                /\ favArtists = (IF k = "artists" THEN tidal0.favArtists ELSE favArtists)

C16_Witness ==
    /\ pc = "done"
    /\ Parsed.version = 1
    /\ ~HasKey("albums")
    /\ HasKey("artists")
    /\ options.sync_albums
    /\ CallsOf({"add_artist"}) # <<>>
    /\ favArtists # tidal0.favArtists

\* The file is one load_backup rejects.
Rejected ==
    LET file == Parsed
    IN  \/ "version" \notin DOMAIN file
        \/ file.version > BACKUP_VERSION
        \/ "playlists" \notin DOMAIN file

\* C17: when load_backup rejects the file, the import ends with its error
\* before any call to Tidal is issued, and the account is as it was.
C17_RejectedSnapshotIssuesNoCall ==
    (Rejected /\ pc # "start") =>
        /\ pc = "aborted"
        /\ error \in {MissingVersion, UnsupportedVersion, MissingPlaylists}
        /\ calls = <<>>
        /\ tidalPlaylists = tidal0.playlists
        /\ favTracks = tidal0.favTracks
        /\ favAlbums = tidal0.favAlbums
        /\ favArtists = tidal0.favArtists

C17_Witness ==
    /\ pc = "aborted"
    /\ error = MissingPlaylists
    /\ HasKey("favorites")
    /\ options.sync_favorites
    /\ tidalPlaylists # <<>>
    /\ calls = <<>>

\* The dict handed to the writer is a valid snapshot.
ValidSnapshot(s) ==
    /\ "version" \in DOMAIN s
    /\ s.version <= BACKUP_VERSION
    /\ "playlists" \in DOMAIN s

\* C18: a valid snapshot written with json.dump and read back with load_backup
\* comes back equal to itself: the same keys with the same values, none added,
\* none dropped.
C18_RoundTrip ==
    (WasRead /\ ValidSnapshot(exported_data)) =>
        /\ pc = "loaded"
        /\ DOMAIN backup_data = DOMAIN exported_data
        /\ backup_data = exported_data

C18_Witness ==
    /\ pc = "loaded"
    /\ exported_data.version = 1
    /\ DOMAIN exported_data = {"version", "playlists", "favorites", "artists"}
    /\ Len(exported_data.playlists) = 1
    /\ exported_data.favorites = <<"s1">>
    /\ backup_data = exported_data

\* ---- the search of an album / artist
Kinds == {"albums", "artists"}
Qualifying == {i \in 1..Len(search_results) : search_results[i].similar}
FirstQualifying == CHOOSE i \in Qualifying : \A j \in Qualifying : i <= j
AtNextItem(k) == pc' \in {At(k, "search"), At(k, "return")} /\ item_i' = item_i + 1

\* C19: the results of a search are examined in the returned order and the
\* first that passes the equivalence test is the match.  Examining issues no
\* call.  If no result passes, or the first that passes is a known favourite,
\* the loop goes to the next item without an add, whatever the later results
\* are; otherwise exactly one add call is issued for the item, for the first
\* passing result, and the loop goes to the next item whether it succeeded or
\* not.
C19_FirstQualifyingCandidateOnly ==
    [][\A k \in Kinds :
         /\ pc = At(k, "match") =>
              /\ calls' = calls
              /\ IF Qualifying = {} \/ search_results[FirstQualifying].id \in known
                 THEN AtNextItem(k)
                 ELSE /\ pc' = At(k, "add")
                      /\ candidate' = search_results[FirstQualifying].id
                      /\ item_i' = item_i
         /\ pc = At(k, "add") =>
              /\ Len(calls') = Len(calls) + 1
              /\ calls'[Len(calls')].op = AddOp(k)
              /\ calls'[Len(calls')].name = items_data[item_i]
              /\ calls'[Len(calls')].ids = <<candidate>>
              /\ AtNextItem(k)]_vars

\* The first item's match was not added (its add raised) and the search of
\* the second returns a passing result after one that does not pass.
C19_Witness ==
    /\ pc = "albums_match"
    /\ search_results = <<[id |-> "x1", similar |-> FALSE], [id |-> "x2", similar |-> TRUE]>>
    /\ item_i = 2
    /\ calls[3].op = "add_album" /\ ~calls[3].ok /\ calls[3].ids = <<"x2">>

\* C20: an item whose search fails or returns no result that passes the test
\* is noted in not_found exactly once and gets no add call; the pass never
\* aborts, goes on with the next item and, on return, has searched every item.
C20_NoMatchRecordedOnce ==
    /\ pc # "aborted"
    /\ calls # <<>> =>
         LET settled == IF pc \in {"albums_match", "artists_match"}
                        THEN SubSeq(calls, 1, Len(calls) - 1) ELSE calls
             unmatched == SelectSeq(settled, LAMBDA c : c.op \in SearchOps /\ c.ids = <<>>)
         IN  /\ not_found = [i \in 1..Len(unmatched) |-> unmatched[i].name]
             /\ \A i \in 1..(Len(calls) - 1) :
                  (calls[i].op \in SearchOps /\ calls[i].ids = <<>>) =>
                      calls[i + 1].op \in SearchOps
             /\ PassReturned => Len(CallsOf(SearchOps)) = Len(items_data)

C20_Witness ==
    /\ PassReturned
    /\ Len(calls) = 3
    /\ ~calls[2].ok
    /\ calls[3].ok /\ calls[3].ids = <<>>
    /\ not_found = <<"a1", "a1">>

\* ---- the not-found report
\* C21 (as claimed): when an album / artist pass of the import returns, every
\* item it noted as not found is a line of the not-found report of its kind,
\* appended to what the report held.
C21_NotFoundIsReported ==
    PassReturned => not_found_report[PassKind] = NoReport[PassKind] \o not_found

\* ---- one search per source entity
\* C22 (as claimed): in one pass no album / artist of the snapshot is searched
\* on Tidal more than once, however often the list holds it.
C22_EachEntitySearchedOnce ==
    \A item \in SpotifyItems :
        Len(SelectSeq(calls, LAMBDA c : c.op \in SearchOps /\ c.name = item)) <= 1

\* ---- the order of the calls
PlaylistOps == {"playlist_tracks", "create_playlist", "clear", "append"}
\* The pass a call belongs to: 0 the fetch of the playlists, 1 the playlists,
\* 2 the favourite tracks, 3 the albums, 4 the artists.
PassOf(c) ==
    IF c.op = "playlists" THEN 0
    ELSE IF c.op \in PlaylistOps \/ (c.op = "search_tracks" /\ c.name # "Favorites") THEN 1
    ELSE IF c.op \in {"favorite_tracks", "search_tracks", "add_track"} THEN 2
    ELSE IF c.op \in KindOps("albums") THEN 3
    ELSE 4

AddTrackIds ==
    LET a == CallsOf({"add_track"}) IN [i \in 1..Len(a) |-> a[i].ids[1]]
\* The snapshot favourites that are not skipped: they have an id and a match
\* in the cache, and the match is not among the favourites that were fetched.
Resolving ==
    SelectSeq(favorites_data, LAMBDA s : /\ s # NoId
                                         /\ track_match_cache[s] # None
                                         /\ track_match_cache[s] \notin known)
ResolvingIds == [i \in 1..Len(Resolving) |-> track_match_cache[Resolving[i]]]
FetchedAndSearched == \A i \in 1..Len(calls) :
    calls[i].op \in {"favorite_tracks", "search_tracks"} => calls[i].ok
\* A track the loop skips: it has no id or no match in the cache.
Skipped(s) == s = NoId \/ track_match_cache[s] = None

\* C24: a favourite track of the snapshot that has no id, or no match in the
\* cache, is skipped and blocks nothing.  Once the existing favourites were
\* fetched and the tracks searched, the add_track calls issued are, in the
\* order of the snapshot, the matches of the other tracks that are not
\* favourites yet: at every moment the first of them, and all of them when
\* the pass returns.
C24_SkippedTracksNeverBlock ==
    (pc \in {"fav_add", "fav_return", "aborted"} /\ calls # <<>> /\ FetchedAndSearched)
        => /\ IsPrefix(AddTrackIds, ResolvingIds)
           /\ new_ids = ResolvingIds
           /\ pc = "fav_return" => AddTrackIds = ResolvingIds

\* The pass returned after it skipped a track and added a later one.
C24_Witness ==
    /\ pc = "fav_return"
    /\ \E i, j \in 1..Len(favorites_data) :
         /\ i < j
         /\ Skipped(favorites_data[i])
         /\ ~Skipped(favorites_data[j])
         /\ track_match_cache[favorites_data[j]] \notin known
    /\ AddTrackIds # <<>>
    /\ AddTrackIds = ResolvingIds

\* ---- export and import are separate runs
Started == pc # "main"
TidalUntouched ==
    /\ calls = <<>>
    /\ tidalPlaylists = tidal0.playlists
    /\ favTracks = tidal0.favTracks
    /\ favAlbums = tidal0.favAlbums
    /\ favArtists = tidal0.favArtists

\* C25: a run with --export opens no Tidal session and issues no call to
\* Tidal; a run with --import opens no Spotify session and issues no call to
\* Spotify, and the data it imports is what load_backup read from the file.
C25_ExportAndImportAreSeparate ==
    /\ (args.export /\ Started) => ("tidal" \notin sessions /\ TidalUntouched)
    /\ (args.import_file /\ Started) =>
         /\ "spotify" \notin sessions
         /\ spotify_calls = <<>>
         /\ pc \notin {"start", "exited", "aborted"} =>
              backup_data = load_backup(backup_file).value

\* An import that went through and changed the account, with the Tidal
\* session only.
C25_Witness ==
    /\ args.import_file
    /\ pc = "done"
    /\ sessions = {"tidal"}
    /\ CallsOf(MutationOps) # <<>>

\* An export that wrote its file, with the Spotify session only.
C25_ExportWitness ==
    /\ args.export
    /\ pc = "load"
    /\ sessions = {"spotify"}
    /\ Len(spotify_calls) > 2
    /\ backup_file = json_dump(exported_data)

\* ---- what the export keeps of an object
FieldOr(d, key, default) == IF key \in DOMAIN d THEN d[key] ELSE default
\* A list of artists that holds the names of the given artists and nothing
\* else.
NamesOf(out, in) ==
    /\ Len(out) = Len(in)
    /\ \A i \in 1..Len(in) :
         /\ DOMAIN out[i] = {"name"}
         /\ out[i].name = FieldOr(in[i], "name", None)
TrackKept(out, in) ==
    /\ DOMAIN out = {"id", "name", "duration_ms", "track_number", "external_ids",
                     "artists", "album"}
    /\ \A k \in {"id", "name", "duration_ms", "track_number"} :
         out[k] = FieldOr(in, k, None)
    /\ out.external_ids = FieldOr(in, "external_ids", NoData)
    /\ NamesOf(out.artists, FieldOr(in, "artists", <<>>))
    /\ DOMAIN out.album = {"name", "artists"}
    /\ out.album.name = FieldOr(FieldOr(in, "album", NoData), "name", None)
    /\ NamesOf(out.album.artists, FieldOr(FieldOr(in, "album", NoData), "artists", <<>>))
AlbumKept(out, in) ==
    /\ DOMAIN out = {"id", "name", "artists"}
    /\ out.id = FieldOr(in, "id", None)
    /\ out.name = FieldOr(in, "name", None)
    /\ NamesOf(out.artists, FieldOr(in, "artists", <<>>))
ArtistKept(out, in) ==
    /\ DOMAIN out = {"id", "name"}
    /\ out.id = FieldOr(in, "id", None)
    /\ out.name = FieldOr(in, "name", None)
PlaylistKept(out, in, tracks) ==
    /\ DOMAIN out = {"id", "name", "description", "tracks"}
    /\ out.id = FieldOr(in, "id", None)
    /\ out.name = FieldOr(in, "name", None)
    /\ out.description = FieldOr(in, "description", "")
    /\ Len(out.tracks) = Len(tracks)
    /\ \A i \in 1..Len(tracks) : TrackKept(out.tracks[i], tracks[i])
\* Some track of the object has an 'album' field whose value is None.
HasNullAlbum ==
    \/ spotify_object.kind = "track" /\ simplify_track_raises(spotify_object.data)
    \/ /\ spotify_object.kind = "playlist"
       /\ \E i \in 1..Len(spotify_object.tracks) :
            simplify_track_raises(spotify_object.tracks[i])

AllCallsOk == \A i \in 1..Len(calls) : calls[i].ok
PlaylistPassReturned ==
    /\ pc = "pl_return"
    /\ playlist_data.tracks # <<>>
    /\ AllCallsOk

\* C27: when the pass over a snapshot playlist with at least one track returns
\* and no call failed, the Tidal playlist holds exactly the resolved list: the
\* same ids, in the same order, as often; whatever it held before, and
\* whichever of the three cases (nothing to write, append, clear and rewrite)
\* applied.
C27_PlaylistEqualsNew ==
    PlaylistPassReturned =>
        /\ tidal_playlist # 0
        /\ tidalPlaylists[tidal_playlist].name = playlist_data.name
        /\ tidalPlaylists[tidal_playlist].tracks = new_tidal_track_ids
        /\ new_tidal_track_ids =
             get_tracks_for_new_tidal_playlist(track_match_cache, playlist_data.tracks)

\* The playlist was cleared and rewritten with a list of two ids.
C27_Witness ==
    /\ PlaylistPassReturned
    /\ CallsOf({"clear"}) # <<>>
    /\ old_tidal_tracks # <<>>
    /\ Len(new_tidal_track_ids) > 1
    /\ tidalPlaylists[tidal_playlist].tracks = new_tidal_track_ids

\* The same after an append to a playlist that held the first ids already.
C27_AppendWitness ==
    /\ PlaylistPassReturned
    /\ CallsOf({"clear"}) = <<>>
    /\ CallsOf({"append"}) # <<>>
    /\ old_tidal_tracks # <<>>
    /\ tidalPlaylists[tidal_playlist].tracks = new_tidal_track_ids

\* ---- the import, run twice
\* Where the second run starts in the log: its fetch of the playlists.
SecondRunStart ==
    CHOOSE i \in 1..Len(calls) :
        /\ calls[i].op = "playlists"
        /\ \E j \in 1..(i - 1) : calls[j].op = "playlists"
InSecondRun == Len(CallsOf({"playlists"})) = 2
\* Every search of an album or an artist gave the result it gave before.
SearchesAgree ==
    \A i, j \in 1..Len(calls) :
        (calls[i].op \in SearchOps /\ calls[i].op = calls[j].op
                                   /\ calls[i].name = calls[j].name)
            => calls[i].ids = calls[j].ids

\* C28 (as claimed): after a run of the import in which no call failed, a
\* second run on the same file, with the searches giving the same results,
\* issues no create, clear, append, add_track, add_album or add_artist call.
C28_SecondImportChangesNothing ==
    (InSecondRun /\ AllCallsOk /\ SearchesAgree) =>
        \A i \in SecondRunStart..Len(calls) : calls[i].op \notin MutationOps

\* ---- errors in the content of the snapshot
\* C29 (as claimed): when the import stops on an entry of the snapshot that
\* has no name, no create, clear, append or add call was issued before.
C29_ContentErrorBeforeAnyMutation ==
    error = KeyError => CallsOf(MutationOps) = <<>>

\* ---- one playlist per name
\* C30 (as claimed): in one run of the import, create_playlist succeeds at
\* most once for a name.
C30_OneCreatePerName ==
    \A n \in PlaylistNames :
        Len(SelectSeq(calls, LAMBDA c : c.op = "create_playlist" /\ c.name = n /\ c.ok)) <= 1

\* ---- which passes run
PassKinds == {"favorites", "albums", "artists"}
PassNumber(kind) == IF kind = "favorites" THEN 2 ELSE IF kind = "albums" THEN 3 ELSE 4
\* The calls of the pass of a kind, the fetch of the existing collection
\* included.
CallsOfKind(kind) == SelectSeq(calls, LAMBDA c : PassOf(c) = PassNumber(kind))
\* The flag of the kind is on and the snapshot read has a list of that kind
\* that is not empty.
Wanted(kind) ==
    /\ options["sync_" \o kind]
    /\ kind \in DOMAIN backup_data
    /\ backup_data[kind] # <<>>
\* The loop over the playlists is over.
PlaylistsOver == "playlists" \in DOMAIN backup_data /\ pl_i > Len(backup_data.playlists)
\* The calls with which the pass of a playlist that has tracks begins.
PlaylistEntered == CallsOf({"playlist_tracks", "create_playlist"})

\* C31: whatever the three flags are, once the loop over the playlists is over
\* every playlist of the snapshot has had its pass (one fetch or create per
\* playlist that has tracks).  A call of the favourites, albums or artists
\* pass, the fetch of the existing collection included, is issued only when
\* the flag of the kind is on and the snapshot has a non-empty list of the
\* kind; when the run ends normally each such pass did issue its fetch.
C31_PassesGated ==
    /\ PlaylistsOver =>
         Len(PlaylistEntered) =
             Len(SelectSeq(backup_data.playlists, LAMBDA p : p.tracks # <<>>))
    /\ \A kind \in PassKinds :
         /\ CallsOfKind(kind) # <<>> => Wanted(kind)
         /\ (pc = "done" /\ Wanted(kind)) => CallsOfKind(kind) # <<>>

\* A run that ended normally: the playlist was created; the favourites are in
\* the snapshot but their flag is off; the albums pass ran; the flag of the
\* artists is on but the snapshot has none.
C31_Witness ==
    /\ pc = "done"
    /\ CallsOf({"create_playlist"}) # <<>>
    /\ ~options.sync_favorites /\ get_truthy(backup_data, "favorites")
    /\ options.sync_albums /\ CallsOfKind("albums") # <<>>
    /\ options.sync_artists /\ "artists" \in DOMAIN backup_data
    /\ backup_data.artists = <<>>
    /\ CallsOfKind("favorites") = <<>>
    /\ CallsOfKind("artists") = <<>>

\* ---- the file the export writes
\* C32: load_backup accepts every file export_spotify_data wrote: what it
\* returns has version BACKUP_VERSION and the four lists playlists,
\* favorites, albums and artists, the list of a kind that was not included
\* being there and empty.
C32_ExportedFileIsAccepted ==
    (args.export /\ pc \in {"loaded", "load_failed"}) =>
        /\ pc = "loaded"
        /\ error = None
        /\ {"version", "playlists", "favorites", "albums", "artists"}
               \subseteq DOMAIN backup_data
        /\ backup_data.version = BACKUP_VERSION
        /\ \A kind \in PassKinds : ~options["sync_" \o kind] => backup_data[kind] = <<>>
        /\ backup_data = exported_data

\* The file of an export without albums, from an account that has
\* favourites, was loaded.
C32_Witness ==
    /\ args.export
    /\ pc = "loaded"
    /\ spotify_calls # <<>>
    /\ ~options.sync_albums
    /\ options.sync_favorites
    /\ backup_data.favorites # <<>>
    /\ backup_data.playlists # <<>>
    /\ backup_data.albums = <<>>

=============================================================================
